---- MODULE Spec2Model ----
(***************************************************************************)
(* Model of the fake-trello backend: the role/permission matrix            *)
(* (app/core/permissions.py), the workspace-invitation state machine       *)
(* (app/api/routes/invitations.py, app/repository/invitations.py) and the  *)
(* in-process event dispatcher (app/events/base.py).                       *)
(***************************************************************************)
EXTENDS Bags, FiniteSets, Integers, Sequences, TLC

VARIABLES
    perm,            \* last has_permission call: arguments and returned value
    allowed,         \* last get_allowed_roles call: argument and returned list
    invitations,     \* workspace_invitation table: id -> row
    members,         \* workspace_member table: set of rows
    notifications,   \* notification table: bag of rows
    next_id,         \* next fresh invitation id (uuid4 never repeats)
    clock,           \* datetime.utcnow(), as a logical clock
    cur,             \* the HTTP request being served / last served, with its response
    joined,          \* history: invitations whose accept inserted the membership row
    _handlers,       \* EventDispatcher._handlers: event type -> list of handlers
    _initialized,    \* EventDispatcher._initialized
    registrations,   \* history: the register calls single-threaded callers made
                     \* since the last clear, in call order
    calls,           \* handlers invoked by the last dispatch, in order, with outcome
    dispatched,      \* last dispatch call: event type and how dispatch ended
    event,           \* the event last handed to the production handlers
    created,         \* notification rows the handlers created for that event
    queued,          \* e-mails the handlers queued for that event
    lists,           \* board_list table: rows in creation order (id = index)
    lop,             \* last list operation: its arguments and what it returned
    cards,           \* card table: rows in creation order (id = index)
    checklist_items, \* checklist_item table: rows in creation order (id = index)
    cop,             \* last card, comment or checklist request: its arguments,
                     \* response code and the rows and e-mails it produced
    threads          \* requests and calls running concurrently: per thread
                     \* the operation, its position in the code and its locals

permVars == <<perm, allowed>>
invVars == <<invitations, members, notifications, next_id, clock, cur, joined>>
dispVars == <<_handlers, _initialized, registrations, calls, dispatched>>
handlerVars == <<event, created, queued>>
listVars == <<lists, lop>>
cardVars == <<cards, checklist_items, cop>>
threadVars == <<threads>>
vars == <<perm, allowed, invitations, members, notifications, next_id, clock,
          cur, joined, _handlers, _initialized, registrations, calls, dispatched,
          event, created, queued, lists, lop, cards, checklist_items, cop,
          threads>>

(***************************************************************************)
(* Permission matrix                                                       *)
(***************************************************************************)

\* MemberRole enum
MemberRole == {"admin", "member", "observer"}

\* Python None
None == "None"

\* Action enum
Action ==
    {"invite_member", "remove_member",
     "create_board", "edit_board", "delete_board", "view_board",
     "create_list", "edit_list", "delete_list",
     "create_card", "edit_card", "delete_card", "move_card",
     "create_comment", "delete_any_comment",
     "create_checklist", "toggle_checklist"}

\* a value that is no member of the Action enum (no entry in PERMISSIONS)
UnknownAction == "unknown_action"

\* PERMISSIONS with member wrongly allowed to delete boards
PERMISSIONS_member_deletes_board ==
       ("invite_member" :> <<"admin">>)
    @@ ("remove_member" :> <<"admin">>)
    @@ ("create_board" :> <<"admin", "member">>)
    @@ ("edit_board" :> <<"admin", "member">>)
    @@ ("delete_board" :> <<"admin", "member">>)
    @@ ("view_board" :> <<"admin", "member", "observer">>)
    @@ ("create_list" :> <<"admin", "member">>)
    @@ ("edit_list" :> <<"admin", "member">>)
    @@ ("delete_list" :> <<"admin", "member">>)
    @@ ("create_card" :> <<"admin", "member">>)
    @@ ("edit_card" :> <<"admin", "member">>)
    @@ ("delete_card" :> <<"admin", "member">>)
    @@ ("move_card" :> <<"admin", "member">>)
    @@ ("create_comment" :> <<"admin", "member", "observer">>)
    @@ ("delete_any_comment" :> <<"admin">>)
    @@ ("create_checklist" :> <<"admin", "member">>)
    @@ ("toggle_checklist" :> <<"admin", "member", "observer">>)

\* the PERMISSIONS dict: action -> list of roles
PERMISSIONS ==
       ("invite_member" :> <<"admin">>)
    @@ ("remove_member" :> <<"admin">>)
    @@ ("create_board" :> <<"admin", "member">>)
    @@ ("edit_board" :> <<"admin", "member">>)
    @@ ("delete_board" :> <<"admin">>)
    @@ ("view_board" :> <<"admin", "member", "observer">>)
    @@ ("create_list" :> <<"admin", "member">>)
    @@ ("edit_list" :> <<"admin", "member">>)
    @@ ("delete_list" :> <<"admin", "member">>)
    @@ ("create_card" :> <<"admin", "member">>)
    @@ ("edit_card" :> <<"admin", "member">>)
    @@ ("delete_card" :> <<"admin", "member">>)
    @@ ("move_card" :> <<"admin", "member">>)
    @@ ("create_comment" :> <<"admin", "member", "observer">>)
    @@ ("delete_any_comment" :> <<"admin">>)
    @@ ("create_checklist" :> <<"admin", "member">>)
    @@ ("toggle_checklist" :> <<"admin", "member", "observer">>)

\* dict.get(key, default)
DictGet(d, key, default) == IF key \in DOMAIN d THEN d[key] ELSE default

\* Python "x in list"
InList(x, list) == \E k \in 1..Len(list) : list[k] = x

\* has_permission without the owner override
has_permission_no_owner_override(role, action, is_owner) ==
    IF role = None THEN FALSE
    ELSE InList(role, DictGet(PERMISSIONS, action, <<>>))

\* has_permission letting a non-member view boards
has_permission_public_view(role, action, is_owner) ==
    IF is_owner THEN TRUE
    ELSE IF role = None THEN action = "view_board"
    ELSE InList(role, DictGet(PERMISSIONS, action, <<>>))

\* has_permission failing open on an action without a table entry
has_permission_fail_open(role, action, is_owner) ==
    IF is_owner THEN TRUE
    ELSE IF role = None THEN FALSE
    ELSE InList(role, DictGet(PERMISSIONS, action, <<"admin", "member", "observer">>))

\* has_permission(role, action, is_owner)
has_permission(role, action, is_owner) ==
    IF is_owner THEN TRUE
    ELSE IF role = None THEN FALSE
    ELSE InList(role, DictGet(PERMISSIONS, action, <<>>))

\* get_allowed_roles(action)
get_allowed_roles(action) == DictGet(PERMISSIONS, action, <<>>)

NoPermCall == [role |-> None, action |-> "-", is_owner |-> FALSE, result |-> FALSE]
NoAllowedCall == [action |-> "-", roles |-> <<>>]

\* a caller evaluates has_permission(role, action, is_owner)
HasPermissionCall ==
    /\ \E role \in MemberRole \cup {None}, action \in Action \cup {UnknownAction},
          is_owner \in BOOLEAN :
          perm' = [role |-> role, action |-> action, is_owner |-> is_owner,
                   result |-> has_permission(role, action, is_owner)]
    /\ UNCHANGED <<allowed, invVars, dispVars, handlerVars, listVars, cardVars, threadVars>>

\* a caller evaluates get_allowed_roles(action)
GetAllowedRolesCall ==
    /\ \E action \in Action \cup {UnknownAction} :
          allowed' = [action |-> action, roles |-> get_allowed_roles(action)]
    /\ UNCHANGED <<perm, invVars, dispVars, handlerVars, listVars, cardVars, threadVars>>

(***************************************************************************)
(* Event dispatcher                                                        *)
(***************************************************************************)

\* the base class Event, its concrete subclasses (app/events/types.py) and a
\* test-local subclass
EventTypes ==
    {"Event", "CardMovedEvent", "CommentAddedEvent", "ChecklistToggledEvent",
     "InvitationSentEvent", "InvitationRespondedEvent",
     "WelcomeEmailSentEvent", "TestEvent"}

\* type(event).__mro__ without object: every event class derives from Event
mro(event_type) ==
    IF event_type = "Event" THEN <<"Event">> ELSE <<event_type, "Event">>

\* handler callables: the two production handlers and the two test handlers
HandlerNames == {"handle_notification", "handle_email", "failing_handler", "handler2"}

\* what a call handler(event) can do: return ("ok") or raise an Exception ("raise")
HandlerOutcomes(h) ==
    CASE h = "failing_handler" -> {"raise"}
      [] h = "handler2"        -> {"ok"}
      [] OTHER                 -> {"ok", "raise"}

\* bound on the number of handlers registered through explicit register calls
MaxRegistered == 3

\* event types and handlers used by explicit register calls
RegisterTypes == {"TestEvent", "Event"}
RegisterHandlers == {"failing_handler", "handler2"}

RECURSIVE SumLens(_, _)
SumLens(d, keys) ==
    IF keys = {} THEN 0
    ELSE LET t == CHOOSE x \in keys : TRUE
         IN Len(d[t]) + SumLens(d, keys \ {t})

\* number of registered (type, handler) entries
TotalRegistered == SumLens(_handlers, DOMAIN _handlers)

\* a register that skips a handler the type's list already holds
register_dedup(handlers, event_type, handler) ==
    LET withKey == IF event_type \in DOMAIN handlers THEN handlers
                   ELSE (event_type :> <<>>) @@ handlers
    IN IF \E k \in 1..Len(withKey[event_type]) : withKey[event_type][k] = handler
       THEN withKey
       ELSE [withKey EXCEPT ![event_type] = Append(@, handler)]

\* the registry after EventDispatcher.register(event_type, handler)
register(handlers, event_type, handler) ==
    LET withKey == IF event_type \in DOMAIN handlers THEN handlers
                   ELSE (event_type :> <<>>) @@ handlers
    IN [withKey EXCEPT ![event_type] = Append(@, handler)]

\* a lookup that also collects the handlers of the base classes
RECURSIVE handlers_for_isinstance(_, _)
handlers_for_isinstance(handlers, event_type) ==
    DictGet(handlers, event_type, <<>>)
        \o (IF event_type = "Event" THEN <<>>
            ELSE handlers_for_isinstance(handlers, "Event"))

\* the lookup of dispatch: cls._handlers.get(type(event), [])
handlers_for(handlers, event_type) == DictGet(handlers, event_type, <<>>)

\* a handler call without the try/except: the exception leaves dispatch
try_except_missing(outcome) == IF outcome = "raise" THEN "propagate" ELSE "ok"

\* the try/except around one handler call: an Exception is caught and logged
try_except(outcome) == IF outcome = "raise" THEN "caught" ELSE "ok"

\* the for loop of dispatch from handler k on; log holds the calls made so far
RECURSIVE dispatch_loop(_, _, _, _)
dispatch_loop(handlers, outs, k, log) ==
    IF k > Len(handlers) THEN [calls |-> log, ended |-> "returned"]
    ELSE LET log2 == Append(log, [handler |-> handlers[k], outcome |-> outs[k]])
         IN IF try_except(outs[k]) = "propagate"
            THEN [calls |-> log2, ended |-> "raised"]
            ELSE dispatch_loop(handlers, outs, k + 1, log2)

\* EventDispatcher.register(event_type, handler)
Register ==
    /\ TotalRegistered < MaxRegistered
    /\ \E t \in RegisterTypes, h \in RegisterHandlers :
          /\ _handlers' = register(_handlers, t, h)
          /\ registrations' = Append(registrations, <<t, h>>)
    /\ UNCHANGED <<_initialized, calls, dispatched, permVars, invVars, handlerVars, listVars, cardVars, threadVars>>

\* EventDispatcher.dispatch(event), for an event of exact type t
Dispatch ==
    /\ \E t \in EventTypes :
          LET handlers == handlers_for(_handlers, t)
          IN \E outs \in [1..Len(handlers) -> {"ok", "raise"}] :
                /\ \A k \in 1..Len(handlers) : outs[k] \in HandlerOutcomes(handlers[k])
                /\ LET r == dispatch_loop(handlers, outs, 1, <<>>)
                   IN /\ calls' = r.calls
                      /\ dispatched' = [event_type |-> t, handlers |-> handlers,
                                        ended |-> r.ended]
    /\ UNCHANGED <<_handlers, _initialized, registrations, permVars, invVars, handlerVars, listVars, cardVars, threadVars>>

\* a clear that forgets to reset the initialized flag
Clear_keeps_initialized ==
    /\ _handlers' = <<>>
    /\ _initialized' = _initialized
    /\ registrations' = <<>>
    /\ UNCHANGED <<calls, dispatched, permVars, invVars, handlerVars, listVars, cardVars, threadVars>>

\* EventDispatcher.clear()
Clear ==
    /\ _handlers' = <<>>
    /\ _initialized' = FALSE
    /\ registrations' = <<>>
    /\ UNCHANGED <<calls, dispatched, permVars, invVars, handlerVars, listVars, cardVars, threadVars>>

\* the register calls of initialize(), in source order
InitialRegistrations ==
    << <<"CardMovedEvent", "handle_notification">>,
       <<"CommentAddedEvent", "handle_notification">>,
       <<"ChecklistToggledEvent", "handle_notification">>,
       <<"InvitationSentEvent", "handle_notification">>,
       <<"InvitationRespondedEvent", "handle_notification">>,
       <<"CardMovedEvent", "handle_email">>,
       <<"CommentAddedEvent", "handle_email">>,
       <<"ChecklistToggledEvent", "handle_email">> >>

RECURSIVE register_all(_, _, _)
register_all(handlers, regs, k) ==
    IF k > Len(regs) THEN handlers
    ELSE register_all(register(handlers, regs[k][1], regs[k][2]), regs, k + 1)

\* EventDispatcher.initialize()
Initialize ==
    /\ IF _initialized
       THEN UNCHANGED <<_handlers, _initialized, registrations>>
       ELSE /\ _handlers' = register_all(_handlers, InitialRegistrations, 1)
            /\ registrations' = registrations \o InitialRegistrations
            /\ _initialized' = TRUE
    /\ UNCHANGED <<calls, dispatched, permVars, invVars, handlerVars, listVars, cardVars, threadVars>>

NoDispatch == [event_type |-> "-", handlers |-> <<>>, ended |-> "-"]

(***************************************************************************)
(* Workspace invitations                                                   *)
(***************************************************************************)

\* registered users; carol is the superuser created by init_db
Users == {"alice", "bob", "carol"}
Superusers == {"carol"}

\* User.email of each registered user
email ==
    [u \in Users |->
        CASE u = "alice" -> "alice@example.com"
          [] u = "bob" -> "bob@example.com"
          [] u = "carol" -> "carol@example.com"]

\* the workspaces and their owner_id
Workspaces == {"w1", "w2"}
owner_id == [w \in Workspaces |-> IF w = "w1" THEN "alice" ELSE "bob"]

\* the workspace the invitation and membership requests name
RequestWorkspaces == {"w1"}

\* InvitationStatus enum
InvitationStatus == {"pending", "accepted", "rejected", "expired"}

\* bound on the number of invitations ever created
MaxInvitations == 2

\* the ids a request can name
InvitationIds == 1..MaxInvitations

\* bound on the logical clock
MaxClock == 4

\* roles a caller puts in WorkspaceInvitationCreate.role
RequestRoles == {"admin"}

\* users invited when the membership routes run next to the invitation
\* routes: the owner and a user without role
Invitees == {"alice", "bob"}

\* roles a caller puts in WorkspaceMemberCreate.role
AddMemberRoles == {"observer"}

\* WorkspaceInvite.role, left at its default
InviteRoles == {"member"}

\* WorkspaceInvite.email: the address of a registered user or of nobody
InviteEmails == {email[u] : u \in Users} \cup {"nobody@example.com"}

\* "no row": what .first() / session.get return when nothing matches
NoRow == [user_id |-> None, workspace_id |-> None, role |-> None]

\* responded_at of an invitation that was not answered (NULL)
NoTime == 0

\* repository.invitations.get_member_by_user_and_workspace
get_member_by_user_and_workspace(user_id, workspace_id) ==
    IF \E m \in members : m.user_id = user_id /\ m.workspace_id = workspace_id
    THEN CHOOSE m \in members : m.user_id = user_id /\ m.workspace_id = workspace_id
    ELSE NoRow

\* repository.invitations.get_user_role_in_workspace
get_user_role_in_workspace(user_id, workspace_id) ==
    IF workspace_id \notin Workspaces THEN None
    ELSE IF owner_id[workspace_id] = user_id THEN "owner"
    ELSE LET member == get_member_by_user_and_workspace(user_id, workspace_id)
         IN IF member # NoRow THEN member.role ELSE None

\* repository.invitations.get_pending_invitation, as "a row was found"
get_pending_invitation(invitee_id, workspace_id) ==
    \E i \in DOMAIN invitations :
        /\ invitations[i].invitee_id = invitee_id
        /\ invitations[i].workspace_id = workspace_id
        /\ invitations[i].status = "pending"

\* repository.invitations.create_invitation: the inserted row
create_invitation(workspace_id, inviter_id, invitee_id, role) ==
    [workspace_id |-> workspace_id, inviter_id |-> inviter_id,
     invitee_id |-> invitee_id, role |-> role,
     status |-> "pending", responded_at |-> NoTime]

\* respond_to_invitation storing the wrong enum member on a refusal
respond_to_invitation_expired(invitation, accept, now) ==
    [invitation EXCEPT !.status = IF accept THEN "accepted" ELSE "expired",
                       !.responded_at = now]

\* repository.invitations.respond_to_invitation: the updated row
respond_to_invitation(invitation, accept, now) ==
    [invitation EXCEPT !.status = IF accept THEN "accepted" ELSE "rejected",
                       !.responded_at = now]

\* repository.invitations.add_workspace_member: the inserted row
add_workspace_member(user_id, workspace_id, role) ==
    [user_id |-> user_id, workspace_id |-> workspace_id, role |-> role]

\* the uq_workspace_member constraint rejects the insert of this row
violates_uq_workspace_member(row) ==
    \E m \in members : m.user_id = row.user_id /\ m.workspace_id = row.workspace_id

\* a Notification row
Notification(user_id, type, reference_id, reference_type) ==
    [user_id |-> user_id, type |-> type,
     reference_id |-> reference_id, reference_type |-> reference_type]

\* the request being served (pc # "done": op, user, id are the handler's
\* locals) or the response of the last one served (pc = "done": op and code)
Request(op, user, id, pc, code) ==
    [op |-> op, user |-> user, id |-> id, pc |-> pc, code |-> code]

\* the response of a finished request
Response(op, code) == Request(op, "-", 0, "done", code)

NoRequest == Response("-", 0)

\* no handler is in the middle of a request
Idle == cur.pc = "done"

\* the guards of the create_invitation route: the HTTP error raised, or 200
create_invitation_guard(user, workspace_id, invitee) ==
    IF workspace_id \notin Workspaces THEN 404
    ELSE IF get_user_role_in_workspace(user, workspace_id) \notin {"owner", "admin"}
            /\ user \notin Superusers THEN 403
    ELSE IF invitee = None THEN 404
    ELSE IF invitee = user THEN 400
    ELSE IF invitee = owner_id[workspace_id] THEN 400
    ELSE IF get_member_by_user_and_workspace(invitee, workspace_id) # NoRow THEN 400
    ELSE IF get_pending_invitation(invitee, workspace_id) THEN 400
    ELSE 200

\* POST /invitations/
CreateInvitation(user, w, invitee, role) ==
    /\ Idle
    /\ next_id <= MaxInvitations
    /\ LET code == create_invitation_guard(user, w, invitee)
       IN /\ cur' = Response("create_invitation", code)
          /\ IF code # 200
             THEN UNCHANGED <<invitations, notifications, next_id>>
             ELSE /\ invitations' = (next_id :> create_invitation(w, user, invitee, role))
                                        @@ invitations
                  /\ notifications' = notifications (+)
                        SetToBag({Notification(invitee, "workspace_invitation",
                                               next_id, "invitation")})
                  /\ next_id' = next_id + 1
    /\ UNCHANGED <<members, clock, joined, permVars, dispVars, handlerVars, listVars, cardVars, threadVars>>

\* respond guards without the "already responded" check
respond_guard_no_pending_check(user, id) ==
    IF id \notin DOMAIN invitations THEN 404
    ELSE IF invitations[id].invitee_id # user THEN 403
    ELSE 200

\* respond guards letting a superuser answer for the invitee
respond_guard_superuser_bypass(user, id) ==
    IF id \notin DOMAIN invitations THEN 404
    ELSE IF invitations[id].invitee_id # user /\ user \notin Superusers THEN 403
    ELSE IF invitations[id].status # "pending" THEN 400
    ELSE 200

\* the guards of the respond_to_invitation route: the HTTP error raised, or 200
respond_guard(user, id) ==
    IF id \notin DOMAIN invitations THEN 404
    ELSE IF invitations[id].invitee_id # user THEN 403
    ELSE IF invitations[id].status # "pending" THEN 400
    ELSE 200

\* POST /invitations/{id}/respond, up to and including the status commit
RespondToInvitation(user, id, accept) ==
    /\ Idle
    /\ clock < MaxClock
    /\ LET code == respond_guard(user, id)
       IN IF code # 200
          THEN /\ cur' = Response("respond_to_invitation", code)
               /\ UNCHANGED <<invitations, notifications, clock>>
          ELSE /\ invitations' = [invitations EXCEPT
                     ![id] = respond_to_invitation(@, accept, clock)]
               /\ clock' = clock + 1
               /\ IF accept
                  THEN /\ cur' = Request("respond_to_invitation", user, id,
                                         "add_member", 0)
                       /\ UNCHANGED notifications
                  ELSE /\ notifications' = notifications (+)
                             SetToBag({Notification(invitations[id].inviter_id,
                                 "invitation_rejected",
                                 invitations[id].workspace_id, "workspace")})
                       /\ cur' = Response("respond_to_invitation", 200)
    /\ UNCHANGED <<members, next_id, joined, permVars, dispVars, handlerVars, listVars, cardVars, threadVars>>

\* POST /invitations/{id}/respond with accept, after the status commit:
\* the membership insert (its own commit) and the inviter's notification
RespondAddMember ==
    /\ cur.pc = "add_member"
    /\ LET invitation == invitations[cur.id]
           row == add_workspace_member(cur.user, invitation.workspace_id, invitation.role)
       IN IF violates_uq_workspace_member(row)
          THEN /\ cur' = Response("respond_to_invitation", 500)
               /\ UNCHANGED <<members, notifications, joined>>
          ELSE /\ members' = members \cup {row}
               /\ joined' = joined \cup {cur.id}
               /\ notifications' = notifications (+)
                     SetToBag({Notification(invitation.inviter_id, "invitation_accepted",
                                            invitation.workspace_id, "workspace")})
               /\ cur' = Response("respond_to_invitation", 200)
    /\ UNCHANGED <<invitations, next_id, clock, permVars, dispVars, handlerVars, listVars, cardVars, threadVars>>

\* cancel guards without the "only pending" check
cancel_guard_no_pending_check(user, id) ==
    IF id \notin DOMAIN invitations THEN 404
    ELSE IF /\ invitations[id].inviter_id # user
            /\ get_user_role_in_workspace(user, invitations[id].workspace_id)
                   \notin {"owner", "admin"}
            /\ user \notin Superusers THEN 403
    ELSE 200

\* the guards of the cancel_invitation route: the HTTP error raised, or 200
cancel_guard(user, id) ==
    IF id \notin DOMAIN invitations THEN 404
    ELSE IF /\ invitations[id].inviter_id # user
            /\ get_user_role_in_workspace(user, invitations[id].workspace_id)
                   \notin {"owner", "admin"}
            /\ user \notin Superusers THEN 403
    ELSE IF invitations[id].status # "pending" THEN 400
    ELSE 200

\* repository.invitations.delete_invitation: the table without the row
delete_invitation(id) == [j \in DOMAIN invitations \ {id} |-> invitations[j]]

\* DELETE /invitations/{id}
CancelInvitation(user, id) ==
    /\ Idle
    /\ LET code == cancel_guard(user, id)
       IN /\ cur' = Response("cancel_invitation", code)
          /\ invitations' = IF code = 200 THEN delete_invitation(id) ELSE invitations
    /\ UNCHANGED <<members, notifications, next_id, clock, joined, permVars, dispVars, handlerVars, listVars, cardVars, threadVars>>

\* the guards of the workspaces add_workspace_member route
add_member_guard(user, workspace_id, member_user) ==
    IF workspace_id \notin Workspaces THEN 404
    ELSE IF user \notin Superusers
            /\ owner_id[workspace_id] # user
            /\ get_user_role_in_workspace(user, workspace_id) # "admin" THEN 403
    ELSE IF get_member_by_user_and_workspace(member_user, workspace_id) # NoRow THEN 400
    ELSE IF member_user = owner_id[workspace_id] THEN 400
    ELSE 200

\* POST /workspaces/{id}/members
AddWorkspaceMember(user, w, member_user, role) ==
    /\ Idle
    /\ LET code == add_member_guard(user, w, member_user)
       IN /\ cur' = Response("add_workspace_member", code)
          /\ members' = IF code = 200
                        THEN members \cup {add_workspace_member(member_user, w, role)}
                        ELSE members
    /\ UNCHANGED <<invitations, notifications, next_id, clock, joined, permVars, dispVars, handlerVars, listVars, cardVars, threadVars>>

\* an invite route that skips the "already a member" check; the insert is
\* done without the unique constraint
invite_member_guard_no_existing_check(user, workspace_id, invite_email) ==
    IF workspace_id \notin Workspaces THEN 404
    ELSE IF user \notin Superusers
            /\ owner_id[workspace_id] # user
            /\ get_user_role_in_workspace(user, workspace_id) # "admin" THEN 403
    ELSE IF \A u \in Users : email[u] # invite_email THEN 404
    ELSE IF email[owner_id[workspace_id]] = invite_email THEN 400
    ELSE 200

\* the guards of the workspaces invite_workspace_member route
invite_member_guard(user, workspace_id, invite_email) ==
    IF workspace_id \notin Workspaces THEN 404
    ELSE IF user \notin Superusers
            /\ owner_id[workspace_id] # user
            /\ get_user_role_in_workspace(user, workspace_id) # "admin" THEN 403
    ELSE IF \A u \in Users : email[u] # invite_email THEN 404
    ELSE IF email[owner_id[workspace_id]] = invite_email THEN 400
    ELSE IF get_member_by_user_and_workspace(
                CHOOSE u \in Users : email[u] = invite_email, workspace_id) # NoRow
         THEN 400
    ELSE 200

\* POST /workspaces/{id}/invite: the user with that e-mail becomes a member
\* at once
InviteWorkspaceMember(user, w, invite_email, role) ==
    /\ Idle
    /\ LET code == invite_member_guard(user, w, invite_email)
       IN /\ cur' = Response("invite_workspace_member", code)
          /\ members' = IF code = 200
                        THEN members \cup {add_workspace_member(
                                 CHOOSE u \in Users : email[u] = invite_email, w, role)}
                        ELSE members
    /\ UNCHANGED <<invitations, notifications, next_id, clock, joined, permVars, dispVars, handlerVars, listVars, cardVars, threadVars>>

\* the guards of the workspaces remove_workspace_member route; member names
\* the row of member_id, NoRow when there is none
remove_member_guard(user, workspace_id, member) ==
    IF workspace_id \notin Workspaces THEN 404
    ELSE IF user \notin Superusers
            /\ owner_id[workspace_id] # user
            /\ get_user_role_in_workspace(user, workspace_id) # "admin" THEN 403
    ELSE IF member = NoRow \/ member.workspace_id # workspace_id THEN 404
    ELSE 200

\* DELETE /workspaces/{id}/members/{member_id}
RemoveWorkspaceMember(user, w, member) ==
    /\ Idle
    /\ LET code == remove_member_guard(user, w, member)
       IN /\ cur' = Response("remove_workspace_member", code)
          /\ members' = IF code = 200 THEN members \ {member} ELSE members
    /\ UNCHANGED <<invitations, notifications, next_id, clock, joined, permVars, dispVars, handlerVars, listVars, cardVars, threadVars>>

(***************************************************************************)
(* Event handlers (app/events/handlers.py)                                 *)
(***************************************************************************)

\* the values an event carries for a user: no user, or the user's id with or
\* without the e-mail address
UserFields ==
    {<<None, None>>} \cup UNION {{<<u, None>>, <<u, email[u]>>} : u \in Users}

\* the events that carry card_owner_* and card_assignee_* fields
CardEventTypes == {"CardMovedEvent", "CommentAddedEvent", "ChecklistToggledEvent"}

\* One record shape for all event dataclasses; a field a class lacks is None.
\* actor_id is moved_by_id / commenter_id / toggled_by_id / assigned_by_id /
\* inviter_id (sent) / responder_id; user_id and user_email are assignee_id,
\* assignee_email (CardAssignedEvent), invitee_id, invitee_email (sent),
\* inviter_id (responded) and user_id, user_email (welcome).
EventRecord(type, actor, owner, owner_email, assignee, assignee_email, user, user_email, accepted) ==
    [type |-> type, actor_id |-> actor,
     card_owner_id |-> owner, card_owner_email |-> owner_email,
     card_assignee_id |-> assignee, card_assignee_email |-> assignee_email,
     user_id |-> user, user_email |-> user_email, accepted |-> accepted]

\* the card-scoped events, with every combination of owner and assignee
CardEvents ==
    {EventRecord(t, a, o[1], o[2], s[1], s[2], None, None, None) :
        t \in CardEventTypes, a \in Users, o \in UserFields, s \in UserFields}

\* the events without card owner and assignee
OtherEvents ==
    {EventRecord("CardAssignedEvent", a, None, None, None, None, u, email[u], None) :
        a \in Users, u \in Users}
    \cup {EventRecord("InvitationSentEvent", a, None, None, None, None, u, email[u], None) :
        a \in Users, u \in Users}
    \cup {EventRecord("InvitationRespondedEvent", a, None, None, None, None, u, None, b) :
        a \in Users, u \in Users, b \in {"True", "False"}}
    \cup {EventRecord("WelcomeEmailSentEvent", None, None, None, None, None, u, email[u], None) :
        u \in Users}

Events == CardEvents \cup OtherEvents

\* a target lookup that falls back to the owner when the assignee is the actor
_get_notification_target_skip_actor(e) ==
    IF e.type \in CardEventTypes /\ e.card_assignee_id # None
          /\ e.card_assignee_id # e.actor_id
    THEN <<e.card_assignee_id, e.card_assignee_email>>
    ELSE IF e.type \in CardEventTypes /\ e.card_owner_id # None
         THEN <<e.card_owner_id, e.card_owner_email>>
         ELSE <<None, None>>

\* a target lookup that prefers the owner
_get_notification_target_owner_first(e) ==
    IF e.type \in CardEventTypes /\ e.card_owner_id # None
    THEN <<e.card_owner_id, e.card_owner_email>>
    ELSE IF e.type \in CardEventTypes /\ e.card_assignee_id # None
         THEN <<e.card_assignee_id, e.card_assignee_email>>
         ELSE <<None, None>>

\* _get_notification_target(event): (user id, user e-mail) or (None, None)
_get_notification_target(e) ==
    IF e.type \in CardEventTypes /\ e.card_assignee_id # None
    THEN <<e.card_assignee_id, e.card_assignee_email>>
    ELSE IF e.type \in CardEventTypes /\ e.card_owner_id # None
         THEN <<e.card_owner_id, e.card_owner_email>>
         ELSE <<None, None>>

\* NotificationType member and reference_type used for each card event
CardNotificationType ==
    [t \in CardEventTypes |->
        CASE t = "CardMovedEvent" -> "card_moved"
          [] t = "CommentAddedEvent" -> "comment_added"
          [] t = "ChecklistToggledEvent" -> "checklist_toggled"]

\* handle_notification(event): the rows it creates through create_notification
handle_notification(e) ==
    CASE e.type \in CardEventTypes ->
            LET target_id == _get_notification_target(e)[1]
            IN IF target_id # None /\ target_id # e.actor_id
               THEN <<Notification(target_id, CardNotificationType[e.type],
                                   "card", "card")>>
               ELSE <<>>
      [] e.type = "CardAssignedEvent" ->
            <<Notification(e.user_id, "card_assigned", "card", "card")>>
      [] e.type = "InvitationSentEvent" ->
            <<Notification(e.user_id, "workspace_invitation",
                           "invitation", "invitation")>>
      [] e.type = "InvitationRespondedEvent" ->
            <<Notification(e.user_id,
                           IF e.accepted = "True" THEN "invitation_accepted"
                           ELSE "invitation_rejected",
                           "workspace", "workspace")>>
      [] OTHER -> <<>>

\* a queued e-mail: send_email(email_to=..., use_queue=True)
Email(email_to, template) == [email_to |-> email_to, template |-> template]

\* template rendered for each card event
CardTemplate ==
    [t \in CardEventTypes |->
        CASE t = "CardMovedEvent" -> "card_moved.html"
          [] t = "CommentAddedEvent" -> "comment_added.html"
          [] t = "ChecklistToggledEvent" -> "checklist_toggled.html"]

\* handle_email(event): the e-mails it queues
handle_email(e) ==
    CASE e.type \in CardEventTypes ->
            LET target_email == _get_notification_target(e)[2]
            IN IF target_email # None
                  /\ _get_notification_target(e)[1] # e.actor_id
               THEN <<Email(target_email, CardTemplate[e.type])>>
               ELSE <<>>
      [] e.type = "CardAssignedEvent" ->
            <<Email(e.user_email, "card_assigned.html")>>
      [] e.type = "WelcomeEmailSentEvent" ->
            <<Email(e.user_email, "welcome.html")>>
      [] OTHER -> <<>>

\* the body of a handler: the rows it creates and the e-mails it queues
HandlerBody(h, e) ==
    CASE h = "handle_notification" ->
            [created |-> handle_notification(e), queued |-> <<>>]
      [] h = "handle_email" ->
            [created |-> <<>>, queued |-> handle_email(e)]
      [] OTHER -> [created |-> <<>>, queued |-> <<>>]

\* the effects of the handler calls of one dispatch, in call order
RECURSIVE run_handlers(_, _, _)
run_handlers(handlers, e, k) ==
    IF k > Len(handlers) THEN [created |-> <<>>, queued |-> <<>>]
    ELSE LET b == HandlerBody(handlers[k], e)
             r == run_handlers(handlers, e, k + 1)
         IN [created |-> b.created \o r.created, queued |-> b.queued \o r.queued]

NoEvent == EventRecord("-", None, None, None, None, None, None, None, None)

\* EventDispatcher.dispatch(event) for a production event, every handler
\* returning normally
DispatchEvent ==
    /\ \E e \in Events :
          LET handlers == handlers_for(_handlers, e.type)
              outs == [k \in 1..Len(handlers) |-> "ok"]
              r == dispatch_loop(handlers, outs, 1, <<>>)
              eff == run_handlers(handlers, e, 1)
          IN /\ calls' = r.calls
             /\ dispatched' = [event_type |-> e.type, handlers |-> handlers,
                               ended |-> r.ended]
             /\ event' = e
             /\ created' = eff.created
             /\ queued' = eff.queued
    /\ UNCHANGED <<_handlers, _initialized, registrations, permVars, invVars, listVars, cardVars, threadVars>>

\* a direct call handler(event), as a caller outside the dispatcher makes it
CallHandler ==
    /\ \E h \in {"handle_notification", "handle_email"}, e \in Events :
          /\ calls' = <<[handler |-> h, outcome |-> "ok"]>>
          /\ dispatched' = [event_type |-> e.type, handlers |-> <<h>>,
                            ended |-> "direct"]
          /\ event' = e
          /\ created' = HandlerBody(h, e).created
          /\ queued' = HandlerBody(h, e).queued
    /\ UNCHANGED <<_handlers, _initialized, registrations, permVars, invVars, listVars, cardVars, threadVars>>

(***************************************************************************)
(* Lists and their positions (app/repository/lists.py,                     *)
(* app/api/routes/lists.py).  Positions are floats in the source; the      *)
(* model uses the whole numbers among them.                                *)
(***************************************************************************)

\* the boards; both exist throughout
Boards == {"b1", "b2"}

\* bound on the number of board_list rows
MaxLists == 3

\* the distance get_next_position leaves between two lists
GAP == 65536

\* ListBase.position default
DEFAULT_POSITION == 65535

\* a request body that does not set position
Unset == -1

\* positions a caller supplies explicitly
ExplicitPositions == {DEFAULT_POSITION, 100000}

\* A position so large that its double has neighbours more than 2 * GAP away
\* (any double from 2^70 up, such as 1e30).  The model's numbers below HUGE
\* stand for themselves; HUGE stands for such a double.
HUGE == 1000000000

\* positions a PUT /lists/{id} body supplies
UpdatePositions == {100000, HUGE}

\* x + y on doubles (round to nearest): exact on the whole numbers below
\* 2^53, and x again when y is less than half the distance from x to the
\* next double
float_add(x, y) == IF x >= HUGE THEN x ELSE x + y

\* the largest number of a non-empty set
SetMax(S) == CHOOSE x \in S : \A y \in S : y <= x

\* ListCreate validation: an unset position takes the field default
ListCreate(board_id, position) ==
    [board_id |-> board_id,
     position |-> IF position = Unset THEN DEFAULT_POSITION ELSE position]

\* a BoardList row
BoardList(board_id, position) ==
    [board_id |-> board_id, position |-> position, is_deleted |-> FALSE]

\* get_next_position that also looks at soft-deleted lists
get_next_position_counts_deleted(rows, board_id) ==
    LET positions == {rows[i].position : i \in {j \in DOMAIN rows :
                          rows[j].board_id = board_id}}
    IN IF positions # {} THEN float_add(SetMax(positions), GAP) ELSE GAP

\* get_next_position(session, board_id)
get_next_position(rows, board_id) ==
    LET positions == {rows[i].position : i \in {j \in DOMAIN rows :
                          rows[j].board_id = board_id /\ ~rows[j].is_deleted}}
    IN IF positions # {} THEN float_add(SetMax(positions), GAP) ELSE GAP

\* repository create_list(session, list_in, auto_position): the table afterwards
create_list(rows, list_in, auto_position) ==
    LET position == IF auto_position /\ list_in.position = DEFAULT_POSITION
                    THEN get_next_position(rows, list_in.board_id)
                    ELSE list_in.position
    IN Append(rows, BoardList(list_in.board_id, position))

\* repository update_list(session, board_list, list_in), list_in setting only
\* position (model_dump(exclude_unset=True)): the table afterwards
update_list(rows, id, position) ==
    IF position = Unset THEN rows
    ELSE [rows EXCEPT ![id].position = position]

\* a list operation and what it returned
ListOp(op, board_id, id, position, auto_position, result) ==
    [op |-> op, board_id |-> board_id, id |-> id, position |-> position,
     auto_position |-> auto_position, result |-> result, returned |-> <<>>]

NoListOp == ListOp("-", "-", 0, Unset, FALSE, 0)

\* a caller evaluates get_next_position(session, board_id)
GetNextPosition ==
    /\ \E b \in Boards :
          lop' = ListOp("get_next_position", b, 0, Unset, FALSE,
                        get_next_position(lists, b))
    /\ UNCHANGED <<lists, permVars, invVars, dispVars, handlerVars, cardVars, threadVars>>

\* get_lists_by_board that does not order its rows
get_lists_by_board_unordered(rows, board_id) ==
    LET ids == {j \in DOMAIN rows : rows[j].board_id = board_id /\ ~rows[j].is_deleted}
        n == Cardinality(ids)
    IN {s \in [1..n -> ids] : \A i, k \in 1..n : i # k => s[i] # s[k]}

\* get_lists_by_board(session, board_id): the row sequences the query can
\* return (ids of the rows); ORDER BY position leaves the order of rows with
\* equal positions to the database
get_lists_by_board(rows, board_id) ==
    LET ids == {j \in DOMAIN rows : rows[j].board_id = board_id /\ ~rows[j].is_deleted}
        n == Cardinality(ids)
    IN {s \in [1..n -> ids] :
           /\ \A i, k \in 1..n : i # k => s[i] # s[k]
           /\ \A i \in 1..(n - 1) : rows[s[i]].position <= rows[s[i + 1]].position}

\* a caller evaluates get_lists_by_board(session, board_id)
GetListsByBoard ==
    /\ \E b \in Boards : \E s \in get_lists_by_board(lists, b) :
          lop' = [ListOp("get_lists_by_board", b, 0, Unset, FALSE, 0)
                     EXCEPT !.returned = s]
    /\ UNCHANGED <<lists, permVars, invVars, dispVars, handlerVars, cardVars, threadVars>>

\* repository create_list(session, list_in, auto_position)
CreateList(board_id, position, auto_position) ==
    /\ Len(lists) < MaxLists
    /\ lists' = create_list(lists, ListCreate(board_id, position), auto_position)
    /\ lop' = ListOp("create_list", board_id, Len(lists) + 1, position,
                     auto_position, lists'[Len(lists) + 1].position)
    /\ UNCHANGED <<permVars, invVars, dispVars, handlerVars, cardVars, threadVars>>

\* POST /lists/ (create_board_list): the row is built from the request body
CreateBoardList(board_id, position) ==
    /\ Len(lists) < MaxLists
    /\ board_id \in Boards
    /\ lists' = Append(lists, BoardList(board_id,
                                        ListCreate(board_id, position).position))
    /\ lop' = ListOp("create_board_list", board_id, Len(lists) + 1, position,
                     FALSE, lists'[Len(lists) + 1].position)
    /\ UNCHANGED <<permVars, invVars, dispVars, handlerVars, cardVars, threadVars>>

\* repository update_list(session, board_list, list_in), also the body of
\* PUT /lists/{id}
UpdateList(id, position) ==
    /\ id \in DOMAIN lists
    /\ lists' = update_list(lists, id, position)
    /\ lop' = ListOp("update_list", lists[id].board_id, id, position, FALSE,
                     lists'[id].position)
    /\ UNCHANGED <<permVars, invVars, dispVars, handlerVars, cardVars, threadVars>>

\* repository soft_delete_list(session, board_list, deleted_by)
SoftDeleteList(id) ==
    /\ id \in DOMAIN lists
    /\ lists' = [lists EXCEPT ![id].is_deleted = TRUE]
    /\ lop' = ListOp("soft_delete_list", lists[id].board_id, id, Unset, FALSE,
                     lists[id].position)
    /\ UNCHANGED <<permVars, invVars, dispVars, handlerVars, cardVars, threadVars>>

(***************************************************************************)
(* Cards, comments and checklist items (app/api/routes/cards.py,           *)
(* comments.py, checklists.py and their repositories)                      *)
(***************************************************************************)

\* bound on the number of card rows
MaxCards == 1

\* bound on the number of checklist_item rows
MaxItems == 1

\* Board.workspace_id
workspace_id == [b \in Boards |-> IF b = "b1" THEN "w1" ELSE "w2"]

\* users a card is assigned to through PUT /cards/{id}; None unassigns
Assignees == {"bob", None}

\* CardCreate validation: an unset position takes the CardBase default
CardCreate(list_id, position) ==
    [list_id |-> list_id,
     position |-> IF position = Unset THEN DEFAULT_POSITION ELSE position]

\* a Card row
Card(list_id, position, created_by) ==
    [list_id |-> list_id, position |-> position, created_by |-> created_by,
     assigned_to |-> None, is_deleted |-> FALSE]

\* repository.cards.get_user_role_in_workspace: the member row's role or None
cards_get_user_role_in_workspace(user_id, w) ==
    LET member == get_member_by_user_and_workspace(user_id, w)
    IN IF member # NoRow THEN member.role ELSE None

\* a can_edit_card that accepts any role, as can_access_card does
can_edit_card_any_role(user_id, card) ==
    IF card.list_id \notin DOMAIN lists THEN FALSE
    ELSE LET w == workspace_id[lists[card.list_id].board_id]
         IN \/ owner_id[w] = user_id
            \/ cards_get_user_role_in_workspace(user_id, w) # None

\* repository.cards.can_edit_card(session, user_id, card)
can_edit_card(user_id, card) ==
    IF card.list_id \notin DOMAIN lists THEN FALSE
    ELSE LET w == workspace_id[lists[card.list_id].board_id]
         IN \/ owner_id[w] = user_id
            \/ cards_get_user_role_in_workspace(user_id, w) \in {"admin", "member"}

\* the rows and e-mails a request produced
Produced(n, e) == [notifications |-> n, emails |-> e]

\* The "notify card owner" block of move_card, create_comment and
\* toggle_checklist_item: one notification row and one queued e-mail for the
\* card's creator, unless the creator is the current user.  Users are not
\* soft-deleted in this model, so card_owner.is_deleted is False.
notify_card_owner(card, current_user, type) ==
    IF card.created_by # None /\ card.created_by # current_user
    THEN Produced(<<Notification(card.created_by, type, "card", "card")>>,
                  <<Email(email[card.created_by], type)>>)
    ELSE Produced(<<>>, <<>>)

\* a card, comment or checklist request: arguments, response and effects;
\* id is the card the request is about (0: none), position the position in
\* the request (Unset: none)
CardOp(op, user, id, position, code, produced) ==
    [op |-> op, user |-> user, id |-> id, position |-> position, code |-> code,
     notifications |-> produced.notifications, emails |-> produced.emails]

NoCardOp == CardOp("-", "-", 0, Unset, 0, Produced(<<>>, <<>>))

\* POST /cards/ (create_card) and repository create_card
CreateCard(user, list_id, position) ==
    /\ Len(cards) < MaxCards
    /\ IF list_id \notin DOMAIN lists
       THEN /\ cop' = CardOp("create_card", user, 0, position, 404, Produced(<<>>, <<>>))
            /\ UNCHANGED cards
       ELSE LET w == workspace_id[lists[list_id].board_id]
            IN IF /\ owner_id[w] # user
                  /\ cards_get_user_role_in_workspace(user, w) \notin {"admin", "member"}
               THEN /\ cop' = CardOp("create_card", user, 0, position, 403,
                                     Produced(<<>>, <<>>))
                    /\ UNCHANGED cards
               ELSE /\ cards' = Append(cards, Card(list_id,
                                          CardCreate(list_id, position).position, user))
                    /\ cop' = CardOp("create_card", user, Len(cards) + 1, position,
                                     200, Produced(<<>>, <<>>))
    /\ UNCHANGED <<checklist_items, lists, lop, permVars, invVars, dispVars, handlerVars, threadVars>>

\* PUT /cards/{id} (update_card) with a body that sets assigned_to
UpdateCard(user, id, assigned_to) ==
    /\ IF id \notin DOMAIN cards
       THEN /\ cop' = CardOp("update_card", user, 0, Unset, 404, Produced(<<>>, <<>>))
            /\ UNCHANGED cards
       ELSE IF user \notin Superusers /\ ~can_edit_card(user, cards[id])
       THEN /\ cop' = CardOp("update_card", user, id, Unset, 403, Produced(<<>>, <<>>))
            /\ UNCHANGED cards
       ELSE /\ cards' = [cards EXCEPT ![id].assigned_to = assigned_to]
            /\ cop' = CardOp("update_card", user, id, Unset, 200, Produced(<<>>, <<>>))
    /\ UNCHANGED <<checklist_items, lists, lop, permVars, invVars, dispVars, handlerVars, threadVars>>

\* repository move_card(session, card, list_id, position): the table afterwards
move_card(rows, id, list_id, position) ==
    [rows EXCEPT ![id].list_id = list_id, ![id].position = position]

\* PATCH /cards/{id}/move (move_card)
MoveCard(user, id, list_id, position) ==
    /\ IF id \notin DOMAIN cards
       THEN /\ cop' = CardOp("move_card", user, 0, position, 404, Produced(<<>>, <<>>))
            /\ UNCHANGED cards
       ELSE IF user \notin Superusers /\ ~can_edit_card(user, cards[id])
       THEN /\ cop' = CardOp("move_card", user, id, position, 403, Produced(<<>>, <<>>))
            /\ UNCHANGED cards
       ELSE IF list_id \notin DOMAIN lists
       THEN /\ cop' = CardOp("move_card", user, id, position, 404, Produced(<<>>, <<>>))
            /\ UNCHANGED cards
       ELSE /\ cards' = move_card(cards, id, list_id, position)
            /\ cop' = CardOp("move_card", user, id, position, 200,
                             notify_card_owner(cards'[id], user, "card_moved"))
    /\ UNCHANGED <<checklist_items, lists, lop, permVars, invVars, dispVars, handlerVars, threadVars>>

\* PATCH /cards/{id}/move (move_card) when the commit of the notification row
\* raises: the move was committed by repository move_card before, the
\* exception leaves the route (no try/except) and the response is 500
MoveCardNotificationFails(user, id, list_id, position) ==
    /\ id \in DOMAIN cards
    /\ user \in Superusers \/ can_edit_card(user, cards[id])
    /\ list_id \in DOMAIN lists
    /\ cards' = move_card(cards, id, list_id, position)
    /\ notify_card_owner(cards'[id], user, "card_moved").notifications # <<>>
    /\ cop' = CardOp("move_card", user, id, position, 500, Produced(<<>>, <<>>))
    /\ UNCHANGED <<checklist_items, lists, lop, permVars, invVars, dispVars, handlerVars, threadVars>>

\* DELETE /cards/{id} (delete_card) and repository soft_delete_card
DeleteCard(user, id) ==
    /\ IF id \notin DOMAIN cards \/ (id \in DOMAIN cards /\ cards[id].is_deleted)
       THEN /\ cop' = CardOp("delete_card", user, 0, Unset, 404, Produced(<<>>, <<>>))
            /\ UNCHANGED cards
       ELSE IF user \notin Superusers /\ ~can_edit_card(user, cards[id])
       THEN /\ cop' = CardOp("delete_card", user, id, Unset, 403, Produced(<<>>, <<>>))
            /\ UNCHANGED cards
       ELSE /\ cards' = [cards EXCEPT ![id].is_deleted = TRUE]
            /\ cop' = CardOp("delete_card", user, id, Unset, 200, Produced(<<>>, <<>>))
    /\ UNCHANGED <<checklist_items, lists, lop, permVars, invVars, dispVars, handlerVars, threadVars>>

\* POST /comments/ (create_comment); the comment row it inserts is read by no
\* modelled request and is not kept
CreateComment(user, card_id) ==
    /\ IF card_id \notin DOMAIN cards
       THEN cop' = CardOp("create_comment", user, 0, Unset, 404, Produced(<<>>, <<>>))
       ELSE cop' = CardOp("create_comment", user, card_id, Unset, 200,
                          notify_card_owner(cards[card_id], user, "comment_added"))
    /\ UNCHANGED <<cards, checklist_items, lists, lop, permVars, invVars, dispVars,
                   handlerVars, threadVars>>

\* POST /checklists/ (create_checklist_item)
CreateChecklistItem(user, card_id) ==
    /\ Len(checklist_items) < MaxItems
    /\ IF card_id \notin DOMAIN cards
       THEN /\ cop' = CardOp("create_checklist_item", user, 0, Unset, 404,
                             Produced(<<>>, <<>>))
            /\ UNCHANGED checklist_items
       ELSE /\ checklist_items' = Append(checklist_items,
                                         [card_id |-> card_id, is_completed |-> FALSE])
            /\ cop' = CardOp("create_checklist_item", user, card_id, Unset, 200,
                             Produced(<<>>, <<>>))
    /\ UNCHANGED <<cards, lists, lop, permVars, invVars, dispVars, handlerVars, threadVars>>

\* POST /checklists/{id}/toggle (toggle_checklist_item)
ToggleChecklistItem(user, id) ==
    /\ IF id \notin DOMAIN checklist_items
       THEN /\ cop' = CardOp("toggle_checklist_item", user, 0, Unset, 404,
                             Produced(<<>>, <<>>))
            /\ UNCHANGED checklist_items
       ELSE /\ checklist_items' =
                  [checklist_items EXCEPT ![id].is_completed = ~@]
            /\ LET card_id == checklist_items[id].card_id
               IN cop' = CardOp("toggle_checklist_item", user, card_id, Unset, 200,
                                IF card_id \in DOMAIN cards
                                THEN notify_card_owner(cards[card_id], user,
                                                       "checklist_toggled")
                                ELSE Produced(<<>>, <<>>))
    /\ UNCHANGED <<cards, lists, lop, permVars, invVars, dispVars, handlerVars, threadVars>>

(***************************************************************************)
(* The /lists routes as requests of a user (app/api/routes/lists.py).  The *)
(* routes take current_user from the CurrentUser dependency, which only    *)
(* authenticates.                                                          *)
(***************************************************************************)

\* POST /lists/ (create_board_list) by current_user = user
CreateBoardListBy(user, board_id, position) ==
    /\ user \in Users
    /\ CreateBoardList(board_id, position)

\* PUT /lists/{id} (update_board_list) by current_user = user; the body of the
\* route is that of repository update_list
UpdateBoardList(user, id, position) ==
    /\ user \in Users
    /\ UpdateList(id, position)

\* DELETE /lists/{id} (delete_board_list) by current_user = user; the result
\* is the response code
DeleteBoardList(user, id) ==
    /\ user \in Users
    /\ id \in DOMAIN lists
    /\ IF lists[id].is_deleted
       THEN /\ lop' = ListOp("delete_board_list", lists[id].board_id, id, Unset,
                             FALSE, 404)
            /\ UNCHANGED lists
       ELSE /\ lists' = [lists EXCEPT ![id].is_deleted = TRUE]
            /\ lop' = ListOp("delete_board_list", lists[id].board_id, id, Unset,
                             FALSE, 200)
    /\ UNCHANGED <<permVars, invVars, dispVars, handlerVars, cardVars, threadVars>>

(***************************************************************************)
(* Concurrent requests and calls.  A thread runs one operation; a step of  *)
(* a thread is a piece of the operation's code that runs without another   *)
(* thread in between (one SQL statement or commit, one statement on the    *)
(* dispatcher's class attributes).                                         *)
(***************************************************************************)

\* the two threads (request workers) that run concurrently
Threads == {1, 2}

\* a thread: operation, position in its code, locals, response code
Thread(op, pc, locals, code) == [op |-> op, pc |-> pc, locals |-> locals, code |-> code]

\* a thread that runs nothing
NoThread == Thread("-", "done", <<>>, 0)

\* POST /invitations/ in thread t: the checks of the route, up to and
\* including get_pending_invitation
CreateInvitationCheck(t, user, w, invitee, role) ==
    /\ threads[t].pc = "done"
    /\ next_id + Cardinality({u \in Threads : threads[u].pc = "insert"}) <= MaxInvitations
    /\ LET code == create_invitation_guard(user, w, invitee)
       IN threads' = [threads EXCEPT ![t] =
             IF code # 200
             THEN Thread("create_invitation", "done", <<>>, code)
             ELSE Thread("create_invitation", "insert",
                         [user |-> user, workspace_id |-> w, invitee |-> invitee,
                          role |-> role], 0)]
    /\ UNCHANGED <<permVars, invVars, dispVars, handlerVars, listVars, cardVars>>

\* POST /invitations/ in thread t, after the checks: repository
\* create_invitation inserts the row and the route adds the notification
CreateInvitationInsert(t) ==
    /\ threads[t].op = "create_invitation"
    /\ threads[t].pc = "insert"
    /\ LET a == threads[t].locals
       IN /\ invitations' = (next_id :> create_invitation(a.workspace_id, a.user,
                                                         a.invitee, a.role))
                                @@ invitations
          /\ notifications' = notifications (+)
                SetToBag({Notification(a.invitee, "workspace_invitation",
                                       next_id, "invitation")})
    /\ next_id' = next_id + 1
    /\ threads' = [threads EXCEPT ![t] = Thread("create_invitation", "done", <<>>, 200)]
    /\ UNCHANGED <<members, clock, cur, joined, permVars, dispVars, handlerVars,
                   listVars, cardVars>>

\* EventDispatcher.initialize() in thread t: the test of cls._initialized
InitializeCheck(t) ==
    /\ threads[t].pc = "done"
    /\ threads' = [threads EXCEPT ![t] =
          IF _initialized THEN Thread("initialize", "done", <<>>, 0)
          ELSE Thread("initialize", "register", [k |-> 1], 0)]
    /\ UNCHANGED <<permVars, invVars, dispVars, handlerVars, listVars, cardVars>>

\* EventDispatcher.initialize() in thread t: its next cls.register call.  The
\* call is taken as one step; a switch of threads inside register only adds
\* outcomes.
InitializeRegister(t) ==
    /\ threads[t].op = "initialize"
    /\ threads[t].pc = "register"
    /\ LET k == threads[t].locals.k
           reg == InitialRegistrations[k]
       IN /\ _handlers' = register(_handlers, reg[1], reg[2])
          /\ threads' = [threads EXCEPT ![t] =
                IF k < Len(InitialRegistrations)
                THEN Thread("initialize", "register", [k |-> k + 1], 0)
                ELSE Thread("initialize", "set_initialized", <<>>, 0)]
    /\ UNCHANGED <<_initialized, registrations, calls, dispatched, permVars, invVars,
                   handlerVars, listVars, cardVars>>

\* EventDispatcher.initialize() in thread t: cls._initialized = True
InitializeSet(t) ==
    /\ threads[t].op = "initialize"
    /\ threads[t].pc = "set_initialized"
    /\ _initialized' = TRUE
    /\ threads' = [threads EXCEPT ![t] = Thread("initialize", "done", <<>>, 0)]
    /\ UNCHANGED <<_handlers, registrations, calls, dispatched, permVars, invVars,
                   handlerVars, listVars, cardVars>>

\* repository create_list without explicit position in thread t: model_dump
\* and the query of get_next_position
CreateListRead(t, board_id) ==
    /\ threads[t].pc = "done"
    /\ Len(lists) + Cardinality({u \in Threads : threads[u].pc = "insert_list"}) < MaxLists
    /\ threads' = [threads EXCEPT ![t] =
          Thread("create_list", "insert_list",
                 [board_id |-> board_id,
                  position |-> get_next_position(lists, board_id)], 0)]
    /\ UNCHANGED <<permVars, invVars, dispVars, handlerVars, listVars, cardVars>>

\* repository create_list in thread t: session.add and session.commit of the
\* row with the position computed before
CreateListInsert(t) ==
    /\ threads[t].op = "create_list"
    /\ threads[t].pc = "insert_list"
    /\ LET a == threads[t].locals
       IN /\ lists' = Append(lists, BoardList(a.board_id, a.position))
          /\ lop' = ListOp("create_list", a.board_id, Len(lists) + 1, Unset, TRUE,
                           a.position)
    /\ threads' = [threads EXCEPT ![t] = Thread("create_list", "done", <<>>, 0)]
    /\ UNCHANGED <<permVars, invVars, dispVars, handlerVars, cardVars>>

\* EventDispatcher.dispatch(event) while no thread is inside initialize()
DispatchLater ==
    /\ \A t \in Threads : threads[t].pc = "done"
    /\ Dispatch

(***************************************************************************)
(* Specifications                                                          *)
(***************************************************************************)

Init ==
    /\ perm = NoPermCall
    /\ allowed = NoAllowedCall
    /\ invitations = <<>>
    /\ members = {}
    /\ notifications = EmptyBag
    /\ next_id = 1
    /\ clock = 1
    /\ cur = NoRequest
    /\ joined = {}
    /\ _handlers = <<>>
    /\ _initialized = FALSE
    /\ registrations = <<>>
    /\ calls = <<>>
    /\ dispatched = NoDispatch
    /\ event = NoEvent
    /\ created = <<>>
    /\ queued = <<>>
    /\ lists = <<>>
    /\ lop = NoListOp
    /\ cards = <<>>
    /\ checklist_items = <<>>
    /\ cop = NoCardOp
    /\ threads = [t \in Threads |-> NoThread]

\* the permission matrix, called with every argument combination
NextPerm == HasPermissionCall \/ GetAllowedRolesCall

SpecPerm == Init /\ [][NextPerm]_vars

\* the invitation routes, one request at a time
Next ==
    \/ \E user \in Users, w \in RequestWorkspaces, invitee \in Users \cup {None},
          role \in RequestRoles : CreateInvitation(user, w, invitee, role)
    \/ \E user \in Users, id \in InvitationIds, accept \in BOOLEAN :
          RespondToInvitation(user, id, accept)
    \/ RespondAddMember
    \/ \E user \in Users, id \in InvitationIds : CancelInvitation(user, id)
    \/ \E user \in Users, w \in RequestWorkspaces, member_user \in Users,
          role \in AddMemberRoles : AddWorkspaceMember(user, w, member_user, role)

Spec == Init /\ [][Next]_vars

\* the invitation routes together with the other membership routes of
\* /workspaces
NextMembers ==
    \/ \E user \in Users, w \in RequestWorkspaces, invitee \in Invitees,
          role \in RequestRoles : CreateInvitation(user, w, invitee, role)
    \/ \E user \in Users, id \in InvitationIds, accept \in BOOLEAN :
          RespondToInvitation(user, id, accept)
    \/ RespondAddMember
    \/ \E user \in Users, id \in InvitationIds : CancelInvitation(user, id)
    \/ \E user \in Users, w \in RequestWorkspaces, member_user \in Users,
          role \in AddMemberRoles : AddWorkspaceMember(user, w, member_user, role)
    \/ \E user \in Users, w \in RequestWorkspaces, invite_email \in InviteEmails,
          role \in InviteRoles : InviteWorkspaceMember(user, w, invite_email, role)
    \/ \E user \in Users, w \in RequestWorkspaces, member \in members \cup {NoRow} :
          RemoveWorkspaceMember(user, w, member)

SpecMembers == Init /\ [][NextMembers]_vars

\* create_invitation requests served by two workers at once, next to
\* respond and cancel requests
NextInviteRace ==
    \/ \E t \in Threads, user \in Users, w \in RequestWorkspaces, invitee \in Invitees,
          role \in RequestRoles : CreateInvitationCheck(t, user, w, invitee, role)
    \/ \E t \in Threads : CreateInvitationInsert(t)
    \/ \E user \in Users, id \in InvitationIds, accept \in BOOLEAN :
          RespondToInvitation(user, id, accept)
    \/ RespondAddMember
    \/ \E user \in Users, id \in InvitationIds : CancelInvitation(user, id)

SpecInviteRace == Init /\ [][NextInviteRace]_vars

\* the event dispatcher
NextDispatch == Register \/ Dispatch \/ Clear \/ Initialize

SpecDispatch == Init /\ [][NextDispatch]_vars

\* initialize() called by two threads at once on the cleared dispatcher,
\* and dispatch calls made after the initialize() calls returned
NextInitRace ==
    \/ \E t \in Threads : InitializeCheck(t)
    \/ \E t \in Threads : InitializeRegister(t)
    \/ \E t \in Threads : InitializeSet(t)
    \/ DispatchLater

SpecInitRace == Init /\ [][NextInitRace]_vars

\* the production handlers, called through the dispatcher and directly
NextEvents == Initialize \/ Clear \/ DispatchEvent \/ CallHandler

SpecEvents == Init /\ [][NextEvents]_vars

\* the list repository and the list routes
NextLists ==
    \/ GetNextPosition
    \/ \E b \in Boards, p \in {DEFAULT_POSITION, Unset}, auto \in BOOLEAN :
          CreateList(b, p, auto)
    \/ \E b \in Boards : CreateBoardList(b, Unset)
    \/ GetListsByBoard
    \/ \E id \in 1..MaxLists, p \in UpdatePositions : UpdateList(id, p)
    \/ \E id \in 1..MaxLists : SoftDeleteList(id)

SpecLists == Init /\ [][NextLists]_vars

\* create_list calls without explicit position made by two workers at once,
\* next to soft deletes
NextListRace ==
    \/ \E t \in Threads, b \in Boards : CreateListRead(t, b)
    \/ \E t \in Threads : CreateListInsert(t)
    \/ \E id \in 1..MaxLists : SoftDeleteList(id)

SpecListRace == Init /\ [][NextListRace]_vars

\* the /lists routes called by every user, in a workspace whose owner and
\* admins add members
NextListRoutes ==
    \/ \E user \in Users, b \in Boards : CreateBoardListBy(user, b, Unset)
    \/ \E user \in Users, id \in 1..MaxLists : UpdateBoardList(user, id, 100000)
    \/ \E user \in Users, id \in 1..MaxLists : DeleteBoardList(user, id)
    \/ \E user \in Users, w \in RequestWorkspaces, role \in AddMemberRoles :
          AddWorkspaceMember(user, w, "bob", role)

SpecListRoutes == Init /\ [][NextListRoutes]_vars

\* the card routes called by every user on the lists of board b1, while the
\* owner of w1 adds bob as observer
NextCardAuth ==
    \/ CreateBoardList("b1", Unset)
    \/ \E w \in RequestWorkspaces, role \in AddMemberRoles :
          AddWorkspaceMember("alice", w, "bob", role)
    \/ \E user \in Users, list_id \in 1..MaxLists : CreateCard(user, list_id, Unset)
    \/ \E user \in Users, id \in 1..MaxCards : UpdateCard(user, id, "bob")
    \/ \E user \in Users, id \in 1..MaxCards, list_id \in 1..MaxLists :
          MoveCard(user, id, list_id, 100000)
    \/ \E user \in Users, id \in 1..MaxCards : DeleteCard(user, id)

SpecCardAuth == Init /\ [][NextCardAuth]_vars

\* move_card called by every user on lists of both workspaces, some of them
\* soft-deleted, the commit of the notification row failing or not
NextCardMove ==
    \/ \E b \in Boards : CreateBoardList(b, Unset)
    \/ \E id \in 1..MaxLists : SoftDeleteList(id)
    \/ \E user \in Users, list_id \in 1..MaxLists : CreateCard(user, list_id, Unset)
    \/ \E user \in Users, id \in 1..MaxCards, list_id \in 1..MaxLists :
          MoveCard(user, id, list_id, 100000)
    \/ \E user \in Users, id \in 1..MaxCards, list_id \in 1..MaxLists :
          MoveCardNotificationFails(user, id, list_id, 100000)

SpecCardMove == Init /\ [][NextCardMove]_vars

\* the card, comment and checklist routes, on lists created through POST /lists
NextCards ==
    \/ CreateBoardList("b1", Unset)
    \/ \E user \in Users, list_id \in 1..MaxLists,
          p \in ExplicitPositions \cup {Unset} : CreateCard(user, list_id, p)
    \/ \E user \in Users, id \in 1..MaxCards, a \in Assignees : UpdateCard(user, id, a)
    \/ \E user \in Users, id \in 1..MaxCards, list_id \in 1..MaxLists,
          p \in ExplicitPositions : MoveCard(user, id, list_id, p)
    \/ \E user \in Users, card_id \in 1..MaxCards : CreateComment(user, card_id)
    \/ \E user \in Users, card_id \in 1..MaxCards : CreateChecklistItem(user, card_id)
    \/ \E user \in Users, id \in 1..MaxItems : ToggleChecklistItem(user, id)

SpecCards == Init /\ [][NextCards]_vars

(***************************************************************************)
(* Properties of the permission matrix (checked under SpecPerm)            *)
(***************************************************************************)

\* the set of elements of a list
ListToSet(list) == {list[k] : k \in 1..Len(list)}

\* C1: owner override - whatever the role (None included) and the action,
\* a has_permission call with is_owner = True returned True.
C1_OwnerOverride == perm.is_owner => perm.result = TRUE

\* C1 witness: an owner without any role was allowed to delete a board
C1_Witness ==
    /\ perm.is_owner /\ perm.role = None
    /\ perm.action = "delete_board" /\ perm.result = TRUE

\* C2: no-role deny - for every action, has_permission(None, a, is_owner=False)
\* returned False.
C2_NoRoleDeny == (perm.role = None /\ ~perm.is_owner) => perm.result = FALSE

\* C2 witness: a non-member, non-owner asked to view a board and was denied
C2_Witness ==
    /\ perm.role = None /\ ~perm.is_owner
    /\ perm.action = "view_board" /\ perm.result = FALSE

\* C3: table fidelity and fail-closed lookup - a non-owner call with a role
\* returned exactly "role in get_allowed_roles(action)" (compared on the values
\* the two calls returned); every Action member is a key of PERMISSIONS; an
\* action without entry has the empty allow-list and is denied to every role.
C3_TableFidelity ==
    /\ (/\ perm.role # None /\ ~perm.is_owner /\ allowed.action = perm.action)
          => perm.result = (perm.role \in ListToSet(allowed.roles))
    /\ Action \subseteq DOMAIN PERMISSIONS
    /\ allowed.action = UnknownAction => allowed.roles = <<>>
    /\ (perm.action = UnknownAction /\ ~perm.is_owner) => perm.result = FALSE

\* C3 witness: both calls were made for the unknown action, by an admin
C3_Witness ==
    /\ perm.action = UnknownAction /\ perm.role = "admin" /\ ~perm.is_owner
    /\ allowed.action = UnknownAction
    /\ perm.result = FALSE

\* what the claim lists for member: creation and editing of boards, lists,
\* cards, comments and checklists, MOVE_CARD included
C4_MemberCan ==
    {"create_board", "edit_board", "create_list", "edit_list",
     "create_card", "edit_card", "move_card", "create_comment",
     "create_checklist", "toggle_checklist"}

\* C4: content of the matrix - observer is allowed exactly VIEW_BOARD,
\* CREATE_COMMENT and TOGGLE_CHECKLIST; member is allowed creation/editing but
\* none of INVITE_MEMBER, REMOVE_MEMBER, DELETE_BOARD, DELETE_ANY_COMMENT;
\* admin is allowed INVITE_MEMBER, REMOVE_MEMBER and DELETE_BOARD.
C4_MatrixContent ==
    (perm.action \in Action /\ ~perm.is_owner) =>
        /\ perm.role = "observer" =>
              perm.result = (perm.action \in {"view_board", "create_comment",
                                              "toggle_checklist"})
        /\ (perm.role = "member" /\ perm.action \in C4_MemberCan) => perm.result = TRUE
        /\ (perm.role = "member" /\ perm.action \in
                {"invite_member", "remove_member", "delete_board", "delete_any_comment"})
              => perm.result = FALSE
        /\ (perm.role = "admin" /\ perm.action \in
                {"invite_member", "remove_member", "delete_board"})
              => perm.result = TRUE

\* C4 witness: a member asked to delete a board and was denied
C4_Witness ==
    /\ perm.role = "member" /\ ~perm.is_owner
    /\ perm.action = "delete_board" /\ perm.result = FALSE

(***************************************************************************)
(* Properties of the invitation state machine (checked under Spec)         *)
(***************************************************************************)

\* C5: single transition - the respond call of the invitee on a pending
\* invitation sets its status to accepted (accept) or rejected (not accept);
\* a respond call of the invitee on an invitation that was already answered
\* gets the invalid-state error (400) and leaves the invitation rows (status,
\* responded_at) and the membership rows unchanged.
C5_SingleTransition ==
    [][\A user \in Users, id \in InvitationIds, accept \in BOOLEAN :
          (/\ cur'.op = "respond_to_invitation"
           /\ id \in DOMAIN invitations
           /\ invitations[id].invitee_id = user
           /\ RespondToInvitation(user, id, accept))
          => IF invitations[id].status = "pending"
             THEN invitations'[id].status = IF accept THEN "accepted" ELSE "rejected"
             ELSE /\ cur' = Response("respond_to_invitation", 400)
                  /\ invitations' = invitations
                  /\ members' = members]_vars

\* C5 witness: a respond call was refused with 400 on an answered invitation
C5_Witness ==
    /\ cur = Response("respond_to_invitation", 400)
    /\ \E i \in DOMAIN invitations :
          invitations[i].status = "rejected" /\ invitations[i].responded_at # NoTime

\* C6: invitee-only guard - a respond call by a user other than the invitee
\* (inviter, workspace owner and superuser included) is refused (403) and
\* changes neither an invitation row nor a membership row.
C6_InviteeOnly ==
    [][\A user \in Users, id \in InvitationIds, accept \in BOOLEAN :
          (/\ cur'.op = "respond_to_invitation"
           /\ id \in DOMAIN invitations
           /\ invitations[id].invitee_id # user
           /\ RespondToInvitation(user, id, accept))
          => /\ cur' = Response("respond_to_invitation", 403)
             /\ invitations' = invitations
             /\ members' = members]_vars

\* C6 witness: a respond call was refused with 403 while the invitation of
\* bob, sent by the owner, is still pending
C6_Witness ==
    /\ cur = Response("respond_to_invitation", 403)
    /\ \E i \in DOMAIN invitations :
          /\ invitations[i].status = "pending"
          /\ invitations[i].invitee_id = "bob"
          /\ invitations[i].inviter_id = "alice"

\* C7: accept is atomic with membership creation - once the respond request
\* has been answered, no invitation is accepted without the accept having
\* inserted its membership row (the claim excludes such a state at any time,
\* so also between requests).
C7_AcceptAtomic ==
    Idle => \A i \in DOMAIN invitations :
                invitations[i].status = "accepted" => i \in joined

\* C8: terminal states - an accepted or rejected invitation is never changed
\* nor deleted by any request; a deleted invitation was pending.
C8_TerminalStates ==
    [][/\ \A i \in DOMAIN invitations :
             invitations[i].status \in {"accepted", "rejected"}
                => (i \in DOMAIN invitations' /\ invitations'[i] = invitations[i])
       /\ \A i \in DOMAIN invitations \ DOMAIN invitations' :
             invitations[i].status = "pending"]_vars

\* C8 witness: a cancel call was refused with 400 (the invitation was answered)
C8_Witness ==
    /\ cur = Response("cancel_invitation", 400)
    /\ \E i \in DOMAIN invitations : invitations[i].status = "accepted"

\* C9: status domain - every invitation is inserted with status pending and
\* every stored status is pending, accepted or rejected, never expired.
C9_StatusDomain ==
    /\ [](\A i \in DOMAIN invitations :
             invitations[i].status \in {"pending", "accepted", "rejected"})
    /\ [][\A i \in DOMAIN invitations' \ DOMAIN invitations :
             invitations'[i].status = "pending"]_vars

\* C9 witness: one invitation was refused by its invitee, another is pending
C9_Witness ==
    \E i, j \in DOMAIN invitations :
        invitations[i].status = "rejected" /\ invitations[j].status = "pending"

C27_PendingUnique ==
    /\ [](\A i, j \in DOMAIN invitations :
             (/\ invitations[i].status = "pending"
              /\ invitations[j].status = "pending"
              /\ invitations[i].invitee_id = invitations[j].invitee_id
              /\ invitations[i].workspace_id = invitations[j].workspace_id) => i = j)
    /\ [][\A i \in DOMAIN invitations' \ DOMAIN invitations :
             /\ invitations'[i].invitee_id # invitations'[i].inviter_id
             /\ invitations'[i].invitee_id # owner_id[invitations'[i].workspace_id]
             /\ get_member_by_user_and_workspace(invitations'[i].invitee_id,
                    invitations'[i].workspace_id) = NoRow]_vars

(***************************************************************************)
(* Properties of the event dispatcher (checked under SpecDispatch)         *)
(***************************************************************************)

\* C10: dispatch isolation - if a handler raised during the last dispatch,
\* dispatch still returned normally and invoked every handler of the list it
\* looked up exactly once, in particular those registered after the raiser.
C10_DispatchIsolation ==
    (\E k \in 1..Len(calls) : calls[k].outcome = "raise")
        => /\ dispatched.ended = "returned"
           /\ Len(calls) = Len(dispatched.handlers)
           /\ \A j \in 1..Len(calls) : calls[j].handler = dispatched.handlers[j]

\* C10 witness: failing_handler raised first and handler2, registered after
\* it, was still called
C10_Witness ==
    /\ Len(calls) >= 2
    /\ calls[1] = [handler |-> "failing_handler", outcome |-> "raise"]
    /\ calls[2] = [handler |-> "handler2", outcome |-> "ok"]
    /\ dispatched.ended = "returned"

\* the handlers of the register calls made for event_type, in call order
RECURSIVE RegisteredFor(_, _)
RegisteredFor(regs, event_type) ==
    IF regs = <<>> THEN <<>>
    ELSE (IF Head(regs)[1] = event_type THEN <<Head(regs)[2]>> ELSE <<>>)
             \o RegisteredFor(Tail(regs), event_type)

\* C11: dispatch order and exact-type matching - every dispatch call invokes
\* exactly the handlers of the register calls made for type(event), one call
\* per registration and in registration order, invokes no handler registered
\* under another type (base class or subclass included), and returns normally;
\* with no registration for the type it invokes nothing.
C11_DispatchOrder ==
    [][(calls' # calls \/ dispatched' # dispatched)
          => LET expected == RegisteredFor(registrations, dispatched'.event_type)
             IN /\ Len(calls') = Len(expected)
                /\ \A k \in 1..Len(expected) : calls'[k].handler = expected[k]
                /\ dispatched'.ended = "returned"]_vars

\* C11 witness: handlers are registered under TestEvent and under its base
\* class Event in interleaved order, and a TestEvent dispatch called only the
\* two TestEvent handlers, in registration order
C11_Witness ==
    /\ registrations = << <<"TestEvent", "handler2">>, <<"Event", "handler2">>,
                          <<"TestEvent", "failing_handler">> >>
    /\ dispatched.event_type = "TestEvent"
    /\ Len(calls) = 2
    /\ calls[1].handler = "handler2"
    /\ calls[2].handler = "failing_handler"

\* the event types initialize() registers handlers for
InitializedTypes ==
    {"CardMovedEvent", "CommentAddedEvent", "ChecklistToggledEvent",
     "InvitationSentEvent", "InvitationRespondedEvent"}

\* the handlers one initialize() call on an empty registry leaves per type
C12_Registry ==
    [t \in InitializedTypes |->
        IF t \in {"CardMovedEvent", "CommentAddedEvent", "ChecklistToggledEvent"}
        THEN <<"handle_notification", "handle_email">>
        ELSE <<"handle_notification">>]

\* C12: initialize() is idempotent - while the dispatcher is initialized,
\* however many initialize() calls were made, the registry holds for each
\* type exactly what one initialize() call registers (nothing twice); clear()
\* leaves the registry empty and uninitialized, and the next initialize()
\* rebuilds that same registry.
C12_InitializeIdempotent ==
    /\ [](_initialized =>
             /\ InitializedTypes \subseteq DOMAIN _handlers
             /\ \A t \in InitializedTypes : _handlers[t] = C12_Registry[t])
    /\ [](~_initialized =>
             \A t \in InitializedTypes : t \notin DOMAIN _handlers)
    /\ [][(_initialized /\ ~_initialized') \/ (registrations # <<>> /\ registrations' = <<>>)
             => _handlers' = <<>> /\ ~_initialized']_vars

\* C12 witness: handler2 was registered and called, the registry was then
\* cleared, and initialize() has rebuilt the registry of its first call
C12_Witness ==
    /\ _initialized
    /\ registrations = InitialRegistrations
    /\ Len(calls) > 0
    /\ calls[1].handler = "handler2"
    /\ \A t \in InitializedTypes : _handlers[t] = C12_Registry[t]

\* C13: after initialize(), handle_notification and handle_email are both
\* registered for each of CardMovedEvent, CommentAddedEvent,
\* ChecklistToggledEvent, InvitationSentEvent and InvitationRespondedEvent.
C13_BothRegistered ==
    _initialized =>
        \A t \in InitializedTypes :
            /\ t \in DOMAIN _handlers
            /\ InList("handle_notification", _handlers[t])
            /\ InList("handle_email", _handlers[t])

\* how many times x occurs in seq
Count(seq, x) == Cardinality({k \in 1..Len(seq) : seq[k] = x})

\* C25: register performs no de-duplication - a dispatch invokes each handler
\* as many times as it was registered for the type of the event (n
\* registrations of one handler give n calls), and a register call appends
\* the handler to the list of its own type and leaves the list of every
\* other type as it was.
C25_NoDeduplication ==
    [][/\ (calls' # calls \/ dispatched' # dispatched)
            => \A h \in HandlerNames :
                  Count([k \in 1..Len(calls') |-> calls'[k].handler], h)
                     = Count(registrations, <<dispatched'.event_type, h>>)
       /\ \A t \in RegisterTypes, h \in RegisterHandlers :
             registrations' = Append(registrations, <<t, h>>)
                => /\ _handlers'[t] = Append(DictGet(_handlers, t, <<>>), h)
                   /\ \A t2 \in EventTypes \ {t} :
                         DictGet(_handlers', t2, <<>>) = DictGet(_handlers, t2, <<>>)]_vars

\* C25 witness: handler2 was registered three times for TestEvent and for no
\* other type, and one TestEvent dispatch called it three times
C25_Witness ==
    /\ registrations = << <<"TestEvent", "handler2">>, <<"TestEvent", "handler2">>,
                          <<"TestEvent", "handler2">> >>
    /\ DOMAIN _handlers = {"TestEvent"}
    /\ dispatched.event_type = "TestEvent"
    /\ Len(calls) = 3
    /\ \A k \in 1..3 : calls[k].handler = "handler2"

\* no initialize() call is running
InitializeCallsReturned == \A t \in Threads : threads[t].pc = "done"

\* C29: concurrent initialization - once the initialize() calls of the two
\* threads on the cleared dispatcher have returned, in whatever interleaving,
\* every (event type, handler) pair of initialize() is registered exactly
\* once and no other pair is registered, and a dispatch made from then on
\* calls handle_notification and handle_email at most once each.
C29_ConcurrentInitialize ==
    /\ []((InitializeCallsReturned /\ _initialized) =>
             \A type \in EventTypes, h \in HandlerNames :
                 Count(DictGet(_handlers, type, <<>>), h) =
                     IF \E k \in 1..Len(InitialRegistrations) :
                            InitialRegistrations[k] = <<type, h>>
                     THEN 1 ELSE 0)
    /\ [][(InitializeCallsReturned /\ _initialized /\ calls' # calls)
             => \A h \in HandlerNames :
                   Count([k \in 1..Len(calls') |-> calls'[k].handler], h) <= 1]_vars

(***************************************************************************)
(* Properties of the event handlers (checked under SpecEvents)             *)
(***************************************************************************)

\* a step that is a dispatch call made for an event of the production types
DispatchEventStep ==
    /\ <<calls', dispatched', event', created', queued'>>
           # <<calls, dispatched, event, created, queued>>
    /\ dispatched'.ended = "returned"

\* C14: welcome email - a dispatch of a WelcomeEmailSentEvent made while the
\* dispatcher is initialized invokes handle_email, which queues one welcome
\* e-mail to event.user_email, and creates no notification.
C14_WelcomeEmail ==
    [][(_initialized /\ DispatchEventStep /\ event'.type = "WelcomeEmailSentEvent")
          => /\ \E k \in 1..Len(calls') : calls'[k].handler = "handle_email"
             /\ queued' = <<Email(event'.user_email, "welcome.html")>>
             /\ created' = <<>>]_vars

\* handler h was called for the current event
Called(h) == \E k \in 1..Len(calls) : calls[k].handler = h

\* C15: self-notification suppression - for a CardMovedEvent, CommentAddedEvent
\* or ChecklistToggledEvent whose recipient (the assignee if set, else the
\* owner) is the actor, the handlers create no notification and queue no
\* e-mail; in particular an actor who is the assignee does not make the
\* owner the recipient.
C15_NoSelfNotification ==
    LET recipient == IF event.card_assignee_id # None
                     THEN event.card_assignee_id ELSE event.card_owner_id
    IN (event.type \in CardEventTypes /\ recipient = event.actor_id)
          => created = <<>> /\ queued = <<>>

\* C15 witness: bob, the assignee of alice's card, moved it; both handlers
\* ran through the dispatcher and produced nothing
C15_Witness ==
    /\ event.type = "CardMovedEvent"
    /\ event.actor_id = "bob"
    /\ event.card_assignee_id = "bob"
    /\ event.card_assignee_email = "bob@example.com"
    /\ event.card_owner_id = "alice"
    /\ event.card_owner_email = "alice@example.com"
    /\ Called("handle_notification")
    /\ Called("handle_email")
    /\ created = <<>>
    /\ queued = <<>>

\* C16: assignee precedence - for a card event the handlers address the
\* assignee when card_assignee_id is set, else the owner when card_owner_id
\* is set, else nobody: a notification handler call creates exactly one row,
\* for that user, when the user is not the actor (never a row for the owner
\* when an assignee is set) and none when neither id is set; an e-mail handler
\* call uses the e-mail address that goes with the same user.
C16_AssigneePrecedence ==
    event.type \in CardEventTypes =>
        LET a == event.card_assignee_id
            o == event.card_owner_id
        IN /\ (a # None /\ a # event.actor_id /\ Called("handle_notification"))
                 => Len(created) = 1 /\ created[1].user_id = a
           /\ (a # None /\ a # event.actor_id /\ Called("handle_email"))
                 => queued = IF event.card_assignee_email = None THEN <<>>
                             ELSE <<Email(event.card_assignee_email,
                                          CardTemplate[event.type])>>
           /\ (a = None /\ o # None /\ o # event.actor_id
                  /\ Called("handle_notification"))
                 => Len(created) = 1 /\ created[1].user_id = o
           /\ (a = None /\ o # None /\ o # event.actor_id /\ Called("handle_email"))
                 => queued = IF event.card_owner_email = None THEN <<>>
                             ELSE <<Email(event.card_owner_email,
                                          CardTemplate[event.type])>>
           /\ (a = None /\ o = None) => created = <<>> /\ queued = <<>>

\* C16 witness: carol commented on alice's card, assigned to bob; the one
\* notification and the one e-mail went to bob
C16_Witness ==
    /\ event.type = "CommentAddedEvent"
    /\ event.actor_id = "carol"
    /\ event.card_owner_id = "alice"
    /\ event.card_owner_email = "alice@example.com"
    /\ event.card_assignee_id = "bob"
    /\ event.card_assignee_email = "bob@example.com"
    /\ Len(created) = 1
    /\ created[1].user_id = "bob"
    /\ created[1].type = "comment_added"
    /\ queued = <<Email("bob@example.com", "comment_added.html")>>

(***************************************************************************)
(* Properties of list positions (checked under SpecLists)                  *)
(***************************************************************************)

\* ids of the lists of board b, deleted ones included
ListsOf(b) == {j \in DOMAIN lists : lists[j].board_id = b}

\* positions of the active (not soft-deleted) lists of board b
ActivePositions(b) == {lists[j].position : j \in {i \in ListsOf(b) : ~lists[i].is_deleted}}

\* C18: next position - get_next_position(board) returns 65536 when the
\* board has no active list and otherwise the largest position among its
\* active lists plus 65536; and a create_list call without explicit position
\* on a board whose lists so far are active and hold 65536 * i for the i-th
\* of them stores 65536 * k for the k-th list.
C18_NextPosition ==
    /\ [](lop.op = "get_next_position" =>
             lop.result = IF ActivePositions(lop.board_id) = {} THEN 65536
                          ELSE float_add(SetMax(ActivePositions(lop.board_id)), 65536))
    /\ [][(/\ lop'.op = "create_list"
            /\ Len(lists') = Len(lists) + 1
            /\ lop'.position = Unset
            /\ lop'.auto_position
            /\ \A j \in ListsOf(lop'.board_id) :
                  /\ ~lists[j].is_deleted
                  /\ lists[j].position =
                        65536 * Cardinality({i \in ListsOf(lop'.board_id) : i <= j}))
           => lists'[Len(lists')].position =
                 65536 * (Cardinality(ListsOf(lop'.board_id)) + 1)]_vars

\* C18 witness: three create_list calls without position on board b1 stored
\* 65536, 131072 and 196608 in creation order
C18_Witness ==
    /\ Len(lists) = 3
    /\ \A j \in 1..3 : lists[j] = BoardList("b1", 65536 * j)
    /\ lop = ListOp("create_list", "b1", 3, Unset, TRUE, 196608)

\* ids of the active lists of board b
ActiveListsOf(b) == {j \in ListsOf(b) : ~lists[j].is_deleted}

\* the last get_lists_by_board call returned exactly the active lists of its
\* board, each once, in non-decreasing position order
ReturnedInOrder ==
    lop.op = "get_lists_by_board" =>
        /\ Len(lop.returned) = Cardinality(ActiveListsOf(lop.board_id))
        /\ {lop.returned[i] : i \in 1..Len(lop.returned)} = ActiveListsOf(lop.board_id)
        /\ \A i \in 1..(Len(lop.returned) - 1) :
              lists[lop.returned[i]].position <= lists[lop.returned[i + 1]].position

\* this step is a create_list call without explicit position, auto_position on
AutoCreateStep ==
    /\ lop'.op = "create_list"
    /\ Len(lists') = Len(lists) + 1
    /\ lop'.position = Unset
    /\ lop'.auto_position

\* the list this step created lies strictly after every active sibling and
\* every get_lists_by_board result for its board ends with it
CreatedLast ==
    /\ \A p \in ActivePositions(lop'.board_id) : lists'[Len(lists')].position > p
    /\ \A s \in get_lists_by_board(lists', lop'.board_id) : s[Len(s)] = Len(lists')

\* C21 (as claimed): ordering by position - get_lists_by_board returns
\* exactly the non-deleted lists of the board in non-decreasing position
\* order, and after any sequence of create_list, update_list and
\* soft_delete_list calls a list created with auto position lies strictly
\* after every active sibling and is returned last.
C21_OrderedByPosition ==
    /\ []ReturnedInOrder
    /\ [][AutoCreateStep => CreatedLast]_vars

\* C21 (amended): ordering by position - get_lists_by_board returns exactly
\* the non-deleted lists of the board in non-decreasing position order, and
\* a list created with auto position lies strictly after every active
\* sibling and is returned last provided the double sum of each active
\* sibling's position and 65536 is larger than that position (positions
\* below 2^69; the sum of a larger double and 65536 is that double again).
C21_OrderedBelowHuge ==
    /\ []ReturnedInOrder
    /\ [][(/\ AutoCreateStep
            /\ \A p \in ActivePositions(lop'.board_id) : float_add(p, GAP) > p)
           => CreatedLast]_vars

\* C21 witness: after the first list of b1 was deleted and the second moved
\* to 100000, a third was created with auto position and got 165536
C21_Witness ==
    /\ Len(lists) = 3
    /\ lists[1].board_id = "b1" /\ lists[1].is_deleted
    /\ lists[2] = BoardList("b1", 100000)
    /\ lists[3] = BoardList("b1", 165536)
    /\ lop = ListOp("create_list", "b1", 3, Unset, TRUE, 165536)

\* C30: concurrent auto-positioned creation - when create_list calls without
\* explicit position run concurrently (each reads the current maximum, then
\* inserts), in whatever interleaving, no two active lists of one board
\* that were created by auto-positioning have the same position.  (Every
\* list of SpecListRace is created by auto-positioning.)
C30_DistinctPositions ==
    \A i, j \in DOMAIN lists :
        (/\ i # j
         /\ lists[i].board_id = lists[j].board_id
         /\ ~lists[i].is_deleted /\ ~lists[j].is_deleted)
           => lists[i].position # lists[j].position

\* user is neither the owner of the board's workspace nor holds a role in
\* the allow-list of action
NotAllowedOnBoard(user, board_id, action) ==
    /\ owner_id[workspace_id[board_id]] # user
    /\ ~InList(cards_get_user_role_in_workspace(user, workspace_id[board_id]),
               get_allowed_roles(action))

\* C23: list mutations are authorized - a create, update or delete request
\* on a list through the /lists routes by a user who is neither the
\* workspace owner nor holds a role allowed CREATE_LIST, EDIT_LIST or
\* DELETE_LIST respectively (an observer or a non-member) leaves the lists
\* unchanged.
C23_ListMutationsAuthorized ==
    [][\A user \in Users :
          /\ \A b \in Boards :
                (NotAllowedOnBoard(user, b, "create_list")
                    /\ CreateBoardListBy(user, b, Unset)) => lists' = lists
          /\ \A id \in DOMAIN lists :
                (NotAllowedOnBoard(user, lists[id].board_id, "edit_list")
                    /\ UpdateBoardList(user, id, 100000)) => lists' = lists
          /\ \A id \in DOMAIN lists :
                (NotAllowedOnBoard(user, lists[id].board_id, "delete_list")
                    /\ DeleteBoardList(user, id)) => lists' = lists]_vars

\* C20: explicit positions are stored as-is - after create_list or
\* update_list was called with an explicit position p, and after a successful
\* move_card with position p, the stored position of that list or card is p,
\* also for p = 65535.
C20_ExplicitStored ==
    /\ (lop.op \in {"create_list", "update_list"} /\ lop.position # Unset)
          => lists[lop.id].position = lop.position
    /\ (cop.op = "move_card" /\ cop.code = 200)
          => cards[cop.id].position = cop.position

(***************************************************************************)
(* Properties of the card routes (checked under SpecCards)                 *)
(***************************************************************************)

\* C17: recipient resolution at the API - after a successful move_card,
\* create_comment or toggle_checklist_item request the one notification and
\* the one e-mail it produced go to the card's assignee (assigned_to) if set,
\* otherwise to its creator (created_by), and the request produced nothing
\* when that user is the acting user.
C17_RouteRecipient ==
    (/\ cop.op \in {"move_card", "create_comment", "toggle_checklist_item"}
     /\ cop.code = 200
     /\ cop.id \in DOMAIN cards)
        => LET card == cards[cop.id]
               recipient == IF card.assigned_to # None THEN card.assigned_to
                            ELSE card.created_by
           IN IF recipient = None \/ recipient = cop.user
              THEN cop.notifications = <<>> /\ cop.emails = <<>>
              ELSE /\ Len(cop.notifications) = 1
                   /\ cop.notifications[1].user_id = recipient
                   /\ Len(cop.emails) = 1
                   /\ cop.emails[1].email_to = email[recipient]

\* positions of the active rows of a table that have the same parent as row
\* id, that row excluded
SiblingPositions(rows, id, parent(_)) ==
    {rows[j].position : j \in {i \in DOMAIN rows :
        i # id /\ parent(rows[i]) = parent(rows[id]) /\ ~rows[i].is_deleted}}

\* the position the allocator gives a new item with these siblings
Allocated(siblings) == IF siblings = {} THEN 65536 ELSE SetMax(siblings) + 65536

\* C19: position assigned by the allocator at creation - a list created
\* through POST /lists and a card created through POST /cards without an
\* explicit position holds the largest position among the active siblings in
\* its parent plus 65536 (65536 without siblings).
C19_AllocatedAtCreation ==
    /\ (lop.op = "create_board_list" /\ lop.position = Unset)
          => LET board_of(row) == row.board_id
             IN lists[lop.id].position
                   = Allocated(SiblingPositions(lists, lop.id, board_of))
    /\ (cop.op = "create_card" /\ cop.code = 200 /\ cop.position = Unset)
          => LET list_of(row) == row.list_id
             IN cards[cop.id].position
                   = Allocated(SiblingPositions(cards, cop.id, list_of))

(***************************************************************************)
(* Properties of card authorization (checked under SpecCardAuth)           *)
(***************************************************************************)

\* user is no superuser and neither the owner of the workspace of list
\* list_id nor an admin or member of it
NotAllowedOnList(user, list_id) ==
    /\ user \notin Superusers
    /\ list_id \in DOMAIN lists
    /\ owner_id[workspace_id[lists[list_id].board_id]] # user
    /\ cards_get_user_role_in_workspace(user, workspace_id[lists[list_id].board_id])
           \notin {"admin", "member"}

\* the request of this step was answered with code and changed no card
Rejected(code) == cop'.code = code /\ cards' = cards

\* create_card, update_card and move_card requests of users who may not edit
\* are answered 403 and change no card
OthersForbidden(user) ==
    /\ \A list_id \in DOMAIN lists :
          (/\ cop'.op = "create_card"
           /\ NotAllowedOnList(user, list_id)
           /\ CreateCard(user, list_id, Unset)) => Rejected(403)
    /\ \A id \in DOMAIN cards :
          (/\ cop'.op = "update_card"
           /\ NotAllowedOnList(user, cards[id].list_id)
           /\ UpdateCard(user, id, "bob")) => Rejected(403)
    /\ \A id \in DOMAIN cards, list_id \in 1..MaxLists :
          (/\ cop'.op = "move_card"
           /\ NotAllowedOnList(user, cards[id].list_id)
           /\ MoveCard(user, id, list_id, 100000)) => Rejected(403)

\* C22 (as claimed): card mutations are authorized - a create_card,
\* update_card, move_card or delete_card request by a non-superuser who is
\* neither owner nor admin nor member of the card's workspace (an observer or
\* a non-member) is answered 403 and leaves every card row unchanged.
C22_CardMutationsForbidden ==
    [][\A user \in Users \cap {cop'.user} :
          /\ OthersForbidden(user)
          /\ \A id \in DOMAIN cards :
                (/\ cop'.op = "delete_card"
                 /\ NotAllowedOnList(user, cards[id].list_id)
                 /\ DeleteCard(user, id)) => Rejected(403)]_vars

\* C22 (amended): card mutations are authorized - such a request is rejected
\* and leaves every card row unchanged; the answer is 403, except that
\* delete_card answers 404 when the card is already soft-deleted (it tests
\* is_deleted before the permission).
C22_CardMutationsRejected ==
    [][\A user \in Users \cap {cop'.user} :
          /\ OthersForbidden(user)
          /\ \A id \in DOMAIN cards :
                (/\ cop'.op = "delete_card"
                 /\ NotAllowedOnList(user, cards[id].list_id)
                 /\ DeleteCard(user, id))
                   => Rejected(IF cards[id].is_deleted THEN 404 ELSE 403)]_vars

\* C22 witness: bob, observer of w1, asked to move alice's card and was
\* answered 403; the card is where alice created it
C22_Witness ==
    /\ add_workspace_member("bob", "w1", "observer") \in members
    /\ cop = CardOp("move_card", "bob", 1, 100000, 403, Produced(<<>>, <<>>))
    /\ cards = <<Card(1, DEFAULT_POSITION, "alice")>>

(***************************************************************************)
(* Properties of move_card (checked under SpecCardMove)                    *)
(***************************************************************************)

\* C24: mutation commits before side effects - whenever move_card wrote a
\* notification or queued an e-mail, or failed to write the notification,
\* the card's new list_id and position are stored (the move is not rolled
\* back), and when the notification write failed the request was still
\* answered 200.
C24_MoveCommitsFirst ==
    [][\A user \in Users \cap {cop'.user}, id \in DOMAIN cards, list_id \in DOMAIN lists :
          /\ (/\ cop'.op = "move_card"
               /\ MoveCard(user, id, list_id, 100000)
               /\ (cop'.notifications # <<>> \/ cop'.emails # <<>>))
                 => /\ cards'[id].list_id = list_id
                    /\ cards'[id].position = 100000
          /\ (/\ cop'.op = "move_card"
               /\ MoveCardNotificationFails(user, id, list_id, 100000))
                 => /\ cards'[id].list_id = list_id
                    /\ cards'[id].position = 100000
                    /\ cop'.code = 200]_vars

\* C28: move_card never places a card under a workspace where the actor
\* lacks MOVE_CARD - a move_card request of a non-superuser that was
\* answered 200 had a target list that is not soft-deleted and lies in a
\* workspace of which the actor is owner, admin or member.
C28_MoveTargetAuthorized ==
    [][\A user \in (Users \ Superusers) \cap {cop'.user}, id \in DOMAIN cards,
         list_id \in 1..MaxLists :
          (/\ cop'.op = "move_card"
           /\ cop'.code = 200
           /\ MoveCard(user, id, list_id, 100000))
             => /\ ~lists[list_id].is_deleted
                /\ \/ owner_id[workspace_id[lists[list_id].board_id]] = user
                   \/ cards_get_user_role_in_workspace(user,
                          workspace_id[lists[list_id].board_id]) \in {"admin", "member"}]_vars

====
